---- MODULE Spec2Model ----
(***************************************************************************)
(* netl: a tokenizer, a recursive-descent parser and a tree-walking        *)
(* interpreter for a small scripting language (src/src/main.rs runs them   *)
(* in that order on one script).                                           *)
(*                                                                         *)
(* A source text is a sequence of one-character strings.  Indices into     *)
(* `tokens` are 0-based as in the source (tokens[current + 1] here).        *)
(***************************************************************************)
EXTENDS Integers, Sequences, FiniteSets, TLC

VARIABLES code, overflow_checks, pc, tokens, current, blocks, statements,
          ip, variables, stdout, fault

vars == <<code, overflow_checks, pc, tokens, current, blocks, statements,
          ip, variables, stdout, fault>>

(***************************************************************************)
(* Characters (tokenizer.rs: char::is_alphabetic, is_alphanumeric,         *)
(* is_digit(10)), restricted to ASCII.                                     *)
(***************************************************************************)
Whitespace == {" ", "\t", "\n", "\r"}

Digits == {"0", "1", "2", "3", "4", "5", "6", "7", "8", "9"}

Alphabetic ==
    {"a", "b", "c", "d", "e", "f", "g", "h", "i", "j", "k", "l", "m",
     "n", "o", "p", "q", "r", "s", "t", "u", "v", "w", "x", "y", "z",
     "A", "B", "C", "D", "E", "F", "G", "H", "I", "J", "K", "L", "M",
     "N", "O", "P", "Q", "R", "S", "T", "U", "V", "W", "X", "Y", "Z"}

Alphanumeric == Alphabetic \cup Digits

DigitVal ==
    ("0" :> 0) @@ ("1" :> 1) @@ ("2" :> 2) @@ ("3" :> 3) @@ ("4" :> 4) @@
    ("5" :> 5) @@ ("6" :> 6) @@ ("7" :> 7) @@ ("8" :> 8) @@ ("9" :> 9)

DigitChar == <<"0", "1", "2", "3", "4", "5", "6", "7", "8", "9">>

(***************************************************************************)
(* i32                                                                     *)
(***************************************************************************)
I32Max == 2147483647

I32Min == -2147483647 - 1

(***************************************************************************)
(* Tokens (ast.rs: enum Token).  Every token is a record of one shape;     *)
(* `text` is the payload of Identifier and StringLiteral, `value` that of  *)
(* Number.                                                                 *)
(***************************************************************************)
Tok(type) == [type |-> type, text |-> "", value |-> 0]

TokIdentifier(text) == [type |-> "Identifier", text |-> text, value |-> 0]

TokStringLiteral(text) == [type |-> "StringLiteral", text |-> text, value |-> 0]

TokNumber(value) == [type |-> "Number", text |-> "", value |-> value]

(* tokenizer.rs: the one-character arms of the match *)
Punctuation ==
    ("=" :> "Equal") @@ ("+" :> "Plus") @@ ("-" :> "Minus") @@
    ("*" :> "Asterisk") @@ ("/" :> "Slash") @@ ("%" :> "Modulo") @@
    ("(" :> "LeftParenthesis") @@ (")" :> "RightParenthesis") @@
    ("{" :> "LeftBrace") @@ ("}" :> "RightBrace") @@
    ("[" :> "LeftBracket") @@ ("]" :> "RightBracket") @@
    ("<" :> "LessThan") @@ (">" :> "GreaterThan") @@
    (";" :> "SemiColon") @@ ("," :> "Comma")

(* a keyword match that ignores the case of the first letter *)
Keyword_ignore_case(identifier) ==
    CASE identifier \in {"let", "Let"}     -> Tok("Let")
      [] identifier \in {"print", "Print"} -> Tok("Print")
      [] identifier \in {"fn", "Fn"}       -> Tok("Fn")
      [] identifier \in {"if", "If"}       -> Tok("If")
      [] identifier \in {"else", "Else"}   -> Tok("Else")
      [] identifier \in {"elif", "Elif"}   -> Tok("IfElse")
      [] OTHER                             -> TokIdentifier(identifier)

(* tokenizer.rs: the keyword match on a completed word *)
Keyword(identifier) ==
    CASE identifier = "let"   -> Tok("Let")
      [] identifier = "print" -> Tok("Print")
      [] identifier = "fn"    -> Tok("Fn")
      [] identifier = "if"    -> Tok("If")
      [] identifier = "else"  -> Tok("Else")
      [] identifier = "elif"  -> Tok("IfElse")
      [] OTHER                -> TokIdentifier(identifier)

(* the characters code[i .. j-1] as one string *)
RECURSIVE Text(_, _, _)
Text(src, i, j) == IF i >= j THEN "" ELSE src[i] \o Text(src, i + 1, j)

(* the inner loop of the string arm: the index of the closing quote at or
   after i, or Len(src) + 1 when the iterator runs out *)
RECURSIVE StringEnd(_, _)
StringEnd(src, i) ==
    IF i > Len(src) \/ src[i] = "\"" THEN i ELSE StringEnd(src, i + 1)

(* the peek loop of the identifier arm: the first index at or after i whose
   character does not extend the word *)
RECURSIVE IdentifierEnd(_, _)
IdentifierEnd(src, i) ==
    IF i <= Len(src) /\ (src[i] \in Alphanumeric \/ src[i] = "_")
    THEN IdentifierEnd(src, i + 1) ELSE i

(* the peek loop of the number arm *)
RECURSIVE NumberEnd(_, _)
NumberEnd(src, i) ==
    IF i <= Len(src) /\ src[i] \in Digits THEN NumberEnd(src, i + 1) ELSE i

(* str::parse::<i32> on the digit run src[i .. j-1]: Err on overflow *)
RECURSIVE ParseI32(_, _, _, _)
ParseI32(src, i, j, acc) ==
    IF i >= j THEN [ok |-> TRUE, value |-> acc]
    ELSE LET d == DigitVal[src[i]] IN
         IF acc > (I32Max - d) \div 10
         THEN [ok |-> FALSE, value |-> 0]
         ELSE ParseI32(src, i + 1, j, acc * 10 + d)

(* tokenizer.rs tokenize: the while loop from iterator position i with the
   tokens pushed so far; ok = FALSE is the panic of unwrap() *)
RECURSIVE Scan(_, _, _)
Scan(src, i, toks) ==
    IF i > Len(src) THEN [ok |-> TRUE, tokens |-> Append(toks, Tok("EndOfFile"))]
    ELSE LET ch == src[i] IN
      CASE ch \in Whitespace -> Scan(src, i + 1, toks)
        [] ch = "!" ->
            IF i + 1 <= Len(src) /\ src[i + 1] = "="
            THEN Scan(src, i + 2, Append(toks, Tok("NotEqual")))
            ELSE Scan(src, i + 1, Append(toks, Tok("Unknown")))
        [] ch \in DOMAIN Punctuation ->
            Scan(src, i + 1, Append(toks, Tok(Punctuation[ch])))
        [] ch = "\"" ->
            LET e == StringEnd(src, i + 1) IN
            Scan(src, e + 1, Append(toks, TokStringLiteral(Text(src, i + 1, e))))
        [] ch \in Alphabetic ->
            LET e == IdentifierEnd(src, i + 1) IN
            Scan(src, e, Append(toks, Keyword(Text(src, i, e))))
        [] ch \in Digits ->
            LET e == NumberEnd(src, i + 1)
                n == ParseI32(src, i, e, 0) IN
            IF n.ok THEN Scan(src, e, Append(toks, TokNumber(n.value)))
            ELSE [ok |-> FALSE, tokens |-> toks]
        [] OTHER -> Scan(src, i + 1, Append(toks, Tok("Unknown")))

tokenize(src) == Scan(src, 1, <<>>)

(***************************************************************************)
(* AST nodes (ast.rs: enum ASTNode)                                        *)
(***************************************************************************)
Number(value) == [kind |-> "Number", value |-> value]

StringLiteral(text) == [kind |-> "StringLiteral", text |-> text]

Identifier(name) == [kind |-> "Identifier", name |-> name]

BinaryOperation(left, operator, right) ==
    [kind |-> "BinaryOperation", left |-> left, operator |-> operator, right |-> right]

Variable(name, value) == [kind |-> "Variable", name |-> name, value |-> value]

Assignment(name, value) == [kind |-> "Assignment", name |-> name, value |-> value]

PrintNode(expression) == [kind |-> "Print", expression |-> expression]

IfNode(condition, then_statements) ==
    [kind |-> "If", condition |-> condition, then_statements |-> then_statements]

IfElseNode(condition, then_statements, else_statements) ==
    [kind |-> "IfElse", condition |-> condition,
     then_statements |-> then_statements, else_statements |-> else_statements]

(***************************************************************************)
(* Parser (ast.rs: impl Parser).  Every parse function is an operator on   *)
(* the token vector and the cursor; it returns the Result and the cursor   *)
(* it leaves behind.                                                       *)
(***************************************************************************)
NoFault == [kind |-> "None", what |-> "", at |-> 0]

Ok(node, cur) == [ok |-> TRUE, node |-> node, current |-> cur, error |-> NoFault]

Err(what, cur) ==
    [ok |-> FALSE, node |-> Number(0), current |-> cur,
     error |-> [kind |-> "ParseError", what |-> what, at |-> cur]]

current_token(toks, cur) == toks[cur + 1]

next_token(toks, cur) ==
    IF cur < Len(toks) - 1 THEN Ok(Number(0), cur + 1)
    ELSE Err("Unexpected end of file", cur)

(* the ? operator: the error of r is returned, its value goes on to K *)
Try(r, K(_)) == IF r.ok THEN K(r) ELSE r

expect_token(toks, cur, type) ==
    IF current_token(toks, cur).type = type THEN next_token(toks, cur)
    ELSE Err("Expected token " \o type, cur)

expect_identifier(toks, cur) ==
    IF current_token(toks, cur).type = "Identifier"
    THEN Try(next_token(toks, cur),
             LAMBDA n: Ok(Identifier(current_token(toks, cur).text), n.current))
    ELSE Err("Expected identifier", cur)

(* the operators the while condition of parse_expression accepts *)
ExpressionOperators ==
    {"Plus", "Minus", "Equal", "NotEqual", "Asterisk", "Slash", "Modulo",
     "LessThan", "GreaterThan"}

(* the operators the while condition of parse_term accepts *)
TermOperators == {"Equal", "NotEqual"}

RECURSIVE parse_expression(_, _)
RECURSIVE expression_loop(_, _, _)
RECURSIVE parse_term(_, _)
RECURSIVE term_loop(_, _, _)
RECURSIVE parse_factor(_, _)

parse_factor(toks, cur) ==
    LET t == current_token(toks, cur) IN
    CASE t.type = "Number" ->
            Try(next_token(toks, cur), LAMBDA n: Ok(Number(t.value), n.current))
      [] t.type = "StringLiteral" ->
            Try(next_token(toks, cur), LAMBDA n: Ok(StringLiteral(t.text), n.current))
      [] t.type = "Identifier" ->
            Try(next_token(toks, cur), LAMBDA n: Ok(Identifier(t.text), n.current))
      [] t.type = "LeftParenthesis" ->
            Try(next_token(toks, cur), LAMBDA n:
            Try(parse_expression(toks, n.current), LAMBDA expression:
            Try(expect_token(toks, expression.current, "RightParenthesis"), LAMBDA c:
            Ok(expression.node, c.current))))
      [] OTHER -> Err("Unexpected token " \o t.type, cur)

(* a term loop that is an `if`: it takes one operator and returns *)
term_loop_once(toks, left_node, cur) ==
    IF current_token(toks, cur).type \notin TermOperators THEN Ok(left_node, cur)
    ELSE Try(next_token(toks, cur), LAMBDA n:
         Try(parse_factor(toks, n.current), LAMBDA right_node:
         Ok(BinaryOperation(left_node, current_token(toks, cur), right_node.node),
            right_node.current)))

(* one evaluation of the while condition of parse_term and, when it holds,
   the loop body *)
term_loop(toks, left_node, cur) ==
    IF current_token(toks, cur).type \notin TermOperators THEN Ok(left_node, cur)
    ELSE Try(next_token(toks, cur), LAMBDA n:
         Try(parse_factor(toks, n.current), LAMBDA right_node:
         term_loop(toks,
                   BinaryOperation(left_node, current_token(toks, cur), right_node.node),
                   right_node.current)))

parse_term(toks, cur) ==
    Try(parse_factor(toks, cur),
        LAMBDA left_node: term_loop(toks, left_node.node, left_node.current))

(* an expression loop that nests to the right: the rest of the expression
   becomes the right operand *)
expression_loop_right(toks, left_node, cur) ==
    IF current_token(toks, cur).type \notin ExpressionOperators THEN Ok(left_node, cur)
    ELSE Try(next_token(toks, cur), LAMBDA n:
         Try(parse_expression(toks, n.current), LAMBDA right_node:
         Ok(BinaryOperation(left_node, current_token(toks, cur), right_node.node),
            right_node.current)))

(* one evaluation of the while condition of parse_expression and, when it
   holds, the loop body *)
expression_loop(toks, left_node, cur) ==
    IF current_token(toks, cur).type \notin ExpressionOperators THEN Ok(left_node, cur)
    ELSE Try(next_token(toks, cur), LAMBDA n:
         Try(parse_term(toks, n.current), LAMBDA right_node:
         expression_loop(toks,
                         BinaryOperation(left_node, current_token(toks, cur), right_node.node),
                         right_node.current)))

parse_expression(toks, cur) ==
    Try(parse_term(toks, cur),
        LAMBDA left_node: expression_loop(toks, left_node.node, left_node.current))

(* the tail shared by the three one-line statements: parse_expression,
   expect ';' *)
expression_statement(toks, cur) ==
    Try(parse_expression(toks, cur), LAMBDA expression:
    Try(expect_token(toks, expression.current, "SemiColon"), LAMBDA s:
    Ok(expression.node, s.current)))

parse_variable_declaration(toks, cur) ==
    Try(expect_token(toks, cur, "Let"), LAMBDA l:
    Try(expect_identifier(toks, l.current), LAMBDA identifier:
    Try(expect_token(toks, identifier.current, "Equal"), LAMBDA e:
    Try(expression_statement(toks, e.current), LAMBDA value:
    Ok(Variable(identifier.node.name, value.node), value.current)))))

parse_print_statement(toks, cur) ==
    Try(expect_token(toks, cur, "Print"), LAMBDA p:
    Try(expression_statement(toks, p.current), LAMBDA expression:
    Ok(PrintNode(expression.node), expression.current)))

parse_assignment(toks, cur) ==
    Try(expect_identifier(toks, cur), LAMBDA identifier:
    Try(expect_token(toks, identifier.current, "Equal"), LAMBDA e:
    Try(expression_statement(toks, e.current), LAMBDA expression:
    Ok(Assignment(identifier.node.name, expression.node), expression.current))))

(* parse_if_statement up to the opening brace of the then block: the node
   returned is the condition *)
parse_if_head(toks, cur) ==
    Try(expect_token(toks, cur, "If"), LAMBDA i:
    Try(parse_expression(toks, i.current), LAMBDA condition:
    Try(expect_token(toks, condition.current, "LeftBrace"), LAMBDA b:
    Ok(condition.node, b.current))))

(* parse_if_statement between the closing brace of the then block and the
   opening brace of the else block *)
parse_else_head(toks, cur) ==
    Try(next_token(toks, cur), LAMBDA n: expect_token(toks, n.current, "LeftBrace"))

(* a parse_statement whose last arm accepts the token without consuming it *)
parse_statement_skip(toks, cur) ==
    LET t == current_token(toks, cur) IN
    CASE t.type = "Let"        -> parse_variable_declaration(toks, cur)
      [] t.type = "Print"      -> parse_print_statement(toks, cur)
      [] t.type = "Identifier" -> parse_assignment(toks, cur)
      [] OTHER                 -> Ok(Number(0), cur)

(* parse_statement for every first token but `if` (the first four arms of
   the match; the fifth arm is unreachable behind the fourth) *)
parse_statement(toks, cur) ==
    LET t == current_token(toks, cur) IN
    CASE t.type = "Let"        -> parse_variable_declaration(toks, cur)
      [] t.type = "Print"      -> parse_print_statement(toks, cur)
      [] t.type = "Identifier" -> parse_assignment(toks, cur)
      [] OTHER                 -> Err("Unexpected token " \o t.type, cur)

(***************************************************************************)
(* i32 arithmetic (exec.rs: the operators +, -, *, /, % on i32).  An       *)
(* overflowing +, - or * panics in a build with overflow checks and wraps  *)
(* in a build without them; / and % panic on a zero divisor and on         *)
(* i32::MIN / -1 in every build.  No intermediate value leaves the i32     *)
(* range.                                                                  *)
(***************************************************************************)
AddOverflows(a, b) == (b > 0 /\ a > I32Max - b) \/ (b < 0 /\ a < I32Min - b)

WrapAdd(a, b) ==
    IF b > 0 /\ a > I32Max - b THEN (a + I32Min) + (b + I32Min)
    ELSE IF b < 0 /\ a < I32Min - b THEN (a - I32Min) + (b - I32Min)
    ELSE a + b

SubOverflows(a, b) == (b < 0 /\ a > I32Max + b) \/ (b > 0 /\ a < I32Min + b)

WrapSub(a, b) ==
    IF b < 0 /\ a > I32Max + b THEN (a + I32Min) - (b - I32Min)
    ELSE IF b > 0 /\ a < I32Min + b THEN (a - I32Min) - (b + I32Min)
    ELSE a - b

MulOverflows(a, b) ==
    CASE a = 0 \/ b = 0 -> FALSE
      [] a > 0 /\ b > 0 -> a > I32Max \div b
      [] a > 0 /\ b < 0 -> b < (I32Min + a - 1) \div a
      [] a < 0 /\ b > 0 -> a < (I32Min + b - 1) \div b
      [] OTHER          -> a = I32Min \/ b = I32Min \/ (-a) > I32Max \div (-b)

(* a * b modulo 2^32, by doubling *)
RECURSIVE WrapMul(_, _)
WrapMul(a, b) ==
    IF b = 0 THEN 0
    ELSE IF b < 0 THEN WrapSub(0, WrapAdd(WrapMul(a, -(b + 1)), a))
    ELSE LET h == WrapMul(a, b \div 2)
             d == WrapAdd(h, h) IN
         IF b % 2 = 0 THEN d ELSE WrapAdd(d, a)

(* the quotient rounded toward zero, for b # 0 and (a, b) # (i32::MIN, -1) *)
TruncDiv(a, b) ==
    CASE a >= 0 /\ b > 0 -> a \div b
      [] a >= 0 /\ b < 0 -> IF b = I32Min THEN 0 ELSE -(a \div (-b))
      [] a < 0 /\ b > 0  -> (a + b - 1) \div b
      [] OTHER           -> IF b = I32Min THEN (IF a = I32Min THEN 1 ELSE 0)
                            ELSE -((a - b - 1) \div (-b))

TruncRem(a, b) == a - b * TruncDiv(a, b)

(* i32::to_string *)
RECURSIVE NegativeDigits(_)
NegativeDigits(n) ==
    LET d == (10 - (n % 10)) % 10 IN
    (IF n > -10 THEN "" ELSE NegativeDigits((n + d) \div 10)) \o DigitChar[d + 1]

RECURSIVE to_string(_)
to_string(n) ==
    IF n < 0 THEN "-" \o NegativeDigits(n)
    ELSE (IF n < 10 THEN "" ELSE to_string(n \div 10)) \o DigitChar[(n % 10) + 1]

(***************************************************************************)
(* Interpreter (exec.rs: impl Interpreter).  An evaluation returns a value *)
(* or the panic that ended it.                                             *)
(***************************************************************************)
Value(v) == [ok |-> TRUE, value |-> v, fault |-> NoFault]

Panic(kind, what) ==
    [ok |-> FALSE, value |-> Number(0),
     fault |-> [kind |-> kind, what |-> what, at |-> 0]]

BothNumbers(left, right) == left.kind = "Number" /\ right.kind = "Number"

evaluate_addition(left, right, oc) ==
    IF ~BothNumbers(left, right) THEN Panic("TypeMismatch", "Cannot add")
    ELSE IF ~AddOverflows(left.value, right.value)
         THEN Value(Number(left.value + right.value))
    ELSE IF oc THEN Panic("Overflow", "attempt to add with overflow")
    ELSE Value(Number(WrapAdd(left.value, right.value)))

evaluate_subtraction(left, right, oc) ==
    IF ~BothNumbers(left, right) THEN Panic("TypeMismatch", "Cannot subtract")
    ELSE IF ~SubOverflows(left.value, right.value)
         THEN Value(Number(left.value - right.value))
    ELSE IF oc THEN Panic("Overflow", "attempt to subtract with overflow")
    ELSE Value(Number(WrapSub(left.value, right.value)))

evaluate_multiplication(left, right, oc) ==
    IF ~BothNumbers(left, right) THEN Panic("TypeMismatch", "Cannot multiply")
    ELSE IF ~MulOverflows(left.value, right.value)
         THEN Value(Number(left.value * right.value))
    ELSE IF oc THEN Panic("Overflow", "attempt to multiply with overflow")
    ELSE Value(Number(WrapMul(left.value, right.value)))

(* a division that yields 0 for a zero divisor *)
evaluate_division_zero(left, right) ==
    IF ~BothNumbers(left, right) THEN Panic("TypeMismatch", "Cannot divide")
    ELSE IF right.value = 0 THEN Value(Number(0))
    ELSE IF left.value = I32Min /\ right.value = -1
         THEN Panic("Overflow", "attempt to divide with overflow")
    ELSE Value(Number(TruncDiv(left.value, right.value)))

evaluate_division(left, right) ==
    IF ~BothNumbers(left, right) THEN Panic("TypeMismatch", "Cannot divide")
    ELSE IF right.value = 0 THEN Panic("DivideByZero", "attempt to divide by zero")
    ELSE IF left.value = I32Min /\ right.value = -1
         THEN Panic("Overflow", "attempt to divide with overflow")
    ELSE Value(Number(TruncDiv(left.value, right.value)))

evaluate_modulo(left, right) ==
    IF ~BothNumbers(left, right) THEN Panic("TypeMismatch", "Cannot modulo")
    ELSE IF right.value = 0
         THEN Panic("DivideByZero",
                    "attempt to calculate the remainder with a divisor of zero")
    ELSE IF left.value = I32Min /\ right.value = -1
         THEN Panic("Overflow", "attempt to calculate the remainder with overflow")
    ELSE Value(Number(TruncRem(left.value, right.value)))

evaluate_equal(left, right) ==
    IF ~BothNumbers(left, right) THEN Panic("TypeMismatch", "Cannot compare")
    ELSE Value(Number(IF left.value = right.value THEN 1 ELSE 0))

evaluate_not_equal(left, right) ==
    IF ~BothNumbers(left, right) THEN Panic("TypeMismatch", "Cannot compare")
    ELSE Value(Number(IF left.value # right.value THEN 1 ELSE 0))

evaluate_binary_operation(left, operator, right, oc) ==
    CASE operator.type = "Plus"     -> evaluate_addition(left, right, oc)
      [] operator.type = "Minus"    -> evaluate_subtraction(left, right, oc)
      [] operator.type = "Asterisk" -> evaluate_multiplication(left, right, oc)
      [] operator.type = "Slash"    -> evaluate_division(left, right)
      [] operator.type = "Modulo"   -> evaluate_modulo(left, right)
      [] operator.type = "Equal"    -> evaluate_equal(left, right)
      [] operator.type = "NotEqual" -> evaluate_not_equal(left, right)
      [] OTHER -> Panic("UnexpectedOperator", operator.type)

(* a lookup that yields 0 for a name without a binding *)
get_or_zero(env, identifier) ==
    IF identifier \in DOMAIN env THEN Value(env[identifier]) ELSE Value(Number(0))

(* self.variables.get(&identifier).expect("Undefined variable: ...").clone() *)
get(env, identifier) ==
    IF identifier \in DOMAIN env THEN Value(env[identifier])
    ELSE Panic("UndefinedVariable", identifier)

RECURSIVE evaluate_expression(_, _, _)
evaluate_expression(ast, env, oc) ==
    CASE ast.kind = "BinaryOperation" ->
            LET left_value == evaluate_expression(ast.left, env, oc) IN
            IF ~left_value.ok THEN left_value
            ELSE LET right_value == evaluate_expression(ast.right, env, oc) IN
                 IF ~right_value.ok THEN right_value
                 ELSE evaluate_binary_operation(left_value.value, ast.operator,
                                                right_value.value, oc)
      [] ast.kind = "Identifier" -> get(env, ast.name)
      [] ast.kind = "Number" -> Value(Number(ast.value))
      [] ast.kind = "StringLiteral" -> Value(StringLiteral(ast.text))
      [] OTHER -> Panic("UnexpectedNode", ast.kind)

stringify_value(ast) ==
    CASE ast.kind = "Number" -> to_string(ast.value)
      [] ast.kind = "StringLiteral" -> ast.text
      [] OTHER -> "panic"

(* an insert that keeps the value of a name already bound *)
insert_if_absent(env, identifier, value) ==
    [n \in DOMAIN env \cup {identifier} |-> IF n \in DOMAIN env THEN env[n] ELSE value]

(* HashMap::insert *)
insert(env, identifier, value) ==
    [n \in DOMAIN env \cup {identifier} |-> IF n = identifier THEN value ELSE env[n]]

(* a println that writes the line ahead of the earlier ones *)
println_first(out, line) == <<line>> \o out

(* println! on the standard output *)
println(out, line) == Append(out, line)

(* Interpreter::interpret on one statement: the panic if any, the
   environment and the output it leaves *)
interpret(ast, env, out, oc) ==
    CASE ast.kind \in {"Variable", "Assignment"} ->
            LET evaluated_value == evaluate_expression(ast.value, env, oc) IN
            IF evaluated_value.ok
            THEN [fault |-> NoFault, variables |-> insert(env, ast.name, evaluated_value.value),
                  stdout |-> out]
            ELSE [fault |-> evaluated_value.fault, variables |-> env, stdout |-> out]
      [] ast.kind = "Print" ->
            LET evaluated_expression == evaluate_expression(ast.expression, env, oc) IN
            IF evaluated_expression.ok
            THEN [fault |-> NoFault, variables |-> env,
                  stdout |-> println(out, stringify_value(evaluated_expression.value))]
            ELSE [fault |-> evaluated_expression.fault, variables |-> env, stdout |-> out]
      [] OTHER ->
            [fault |-> Panic("UnexpectedNode", ast.kind).fault, variables |-> env,
             stdout |-> out]

(***************************************************************************)
(* Inputs: the scripts main.rs may find in ./examples/test.nl.             *)
(***************************************************************************)
(* let x = 1; *)
LetX1 ==
    <<"l", "e", "t", " ", "x", " ", "=", " ", "1", ";">>

(* let x = 2; *)
LetX2 ==
    <<"l", "e", "t", " ", "x", " ", "=", " ", "2", ";">>

(* let y = 0; *)
LetY0 ==
    <<"l", "e", "t", " ", "y", " ", "=", " ", "0", ";">>

(* let y = z; *)
LetYZ ==
    <<"l", "e", "t", " ", "y", " ", "=", " ", "z", ";">>

(* x = x + 1; *)
AssignX ==
    <<"x", " ", "=", " ", "x", " ", "+", " ", "1", ";">>

(* z = 5; *)
AssignZ ==
    <<"z", " ", "=", " ", "5", ";">>

(* print x; *)
PrintX ==
    <<"p", "r", "i", "n", "t", " ", "x", ";">>

(* print z; *)
PrintZ ==
    <<"p", "r", "i", "n", "t", " ", "z", ";">>

(* print x / y; *)
PrintDiv ==
    <<"p", "r", "i", "n", "t", " ", "x", " ", "/", " ", "y", ";">>

(* print x % y; *)
PrintMod ==
    <<"p", "r", "i", "n", "t", " ", "x", " ", "%", " ", "y", ";">>

(* print "hi" + "there"; *)
PrintStrings ==
    <<"p", "r", "i", "n", "t", " ", "\"", "h", "i", "\"", " ", "+", " ",
      "\"", "t", "h", "e", "r", "e", "\"", ";">>

(* print 2147483647 + 1; *)
PrintOverflow ==
    <<"p", "r", "i", "n", "t", " ", "2", "1", "4", "7", "4", "8", "3", "6",
      "4", "7", " ", "+", " ", "1", ";">>

(* if x { print "yes"; } else { print "no"; } *)
IfElseX ==
    <<"i", "f", " ", "x", " ", "{", " ", "p", "r", "i", "n", "t", " ", "\"",
      "y", "e", "s", "\"", ";", " ", "}", " ", "e", "l", "s", "e", " ", "{",
      " ", "p", "r", "i", "n", "t", " ", "\"", "n", "o", "\"", ";", " ", "}">>

(* if x { print 1; } *)
IfX ==
    <<"i", "f", " ", "x", " ", "{", " ", "p", "r", "i", "n", "t", " ", "1",
      ";", " ", "}">>

(* if x { if y { print 1; } } else { x = 2; } *)
IfNested ==
    <<"i", "f", " ", "x", " ", "{", " ", "i", "f", " ", "y", " ", "{", " ",
      "p", "r", "i", "n", "t", " ", "1", ";", " ", "}", " ", "}", " ", "e",
      "l", "s", "e", " ", "{", " ", "x", " ", "=", " ", "2", ";", " ", "}">>

(* if x { print 1; *)
IfOpen ==
    <<"i", "f", " ", "x", " ", "{", " ", "p", "r", "i", "n", "t", " ", "1",
      ";">>

(* if x { } else { print 1; *)
ElseOpen ==
    <<"i", "f", " ", "x", " ", "{", " ", "}", " ", "e", "l", "s", "e", " ",
      "{", " ", "p", "r", "i", "n", "t", " ", "1", ";">>

(* let x = 5; print x; *)
ExamplePrint ==
    <<"l", "e", "t", " ", "x", " ", "=", " ", "5", ";", " ", "p", "r", "i",
      "n", "t", " ", "x", ";">>

(* let a = 2; let b = 3; print a + b * 2; *)
ExamplePrecedence ==
    <<"l", "e", "t", " ", "a", " ", "=", " ", "2", ";", " ", "l", "e", "t",
      " ", "b", " ", "=", " ", "3", ";", " ", "p", "r", "i", "n", "t", " ",
      "a", " ", "+", " ", "b", " ", "*", " ", "2", ";">>

(* let x = 1; if x { print "yes"; } else { print "no"; } *)
ExampleIf ==
    <<"l", "e", "t", " ", "x", " ", "=", " ", "1", ";", " ", "i", "f", " ",
      "x", " ", "{", " ", "p", "r", "i", "n", "t", " ", "\"", "y", "e", "s",
      "\"", ";", " ", "}", " ", "e", "l", "s", "e", " ", "{", " ", "p", "r",
      "i", "n", "t", " ", "\"", "n", "o", "\"", ";", " ", "}">>

(* let x = 10; let y = 0; print x / y; *)
ExampleDivide ==
    <<"l", "e", "t", " ", "x", " ", "=", " ", "1", "0", ";", " ", "l", "e",
      "t", " ", "y", " ", "=", " ", "0", ";", " ", "p", "r", "i", "n", "t",
      " ", "x", " ", "/", " ", "y", ";">>

(* let x = 1; let x = 2; print x; *)
ExampleRedeclare ==
    <<"l", "e", "t", " ", "x", " ", "=", " ", "1", ";", " ", "l", "e", "t",
      " ", "x", " ", "=", " ", "2", ";", " ", "p", "r", "i", "n", "t", " ",
      "x", ";">>

(* print 1 == 1; *)
ExampleEquality ==
    <<"p", "r", "i", "n", "t", " ", "1", " ", "=", "=", " ", "1", ";">>

(* print 2147483647; *)
ExampleMaxLiteral ==
    <<"p", "r", "i", "n", "t", " ", "2", "1", "4", "7", "4", "8", "3", "6",
      "4", "7", ";">>

(* print 2147483648; *)
ExampleBigLiteral ==
    <<"p", "r", "i", "n", "t", " ", "2", "1", "4", "7", "4", "8", "3", "6",
      "4", "8", ";">>

(* let n = 99999999999; *)
ExampleLongLiteral ==
    <<"l", "e", "t", " ", "n", " ", "=", " ", "9", "9", "9", "9", "9", "9",
      "9", "9", "9", "9", "9", ";">>

(* print "abc *)
ExampleUnterminated ==
    <<"p", "r", "i", "n", "t", " ", "\"", "a", "b", "c">>

(* fn elif letter *)
ExampleKeywords ==
    <<"f", "n", " ", "e", "l", "i", "f", " ", "l", "e", "t", "t", "e", "r">>

(* print (1 + 2) * (3 - 5) / 2; *)
ExampleParenthesis ==
    <<"p", "r", "i", "n", "t", " ", "(", "1", " ", "+", " ", "2", ")", " ",
      "*", " ", "(", "3", " ", "-", " ", "5", ")", " ", "/", " ", "2", ";">>

(* print 1; print "two"; print z; print 3; *)
ExampleFault ==
    <<"p", "r", "i", "n", "t", " ", "1", ";", " ", "p", "r", "i", "n", "t",
      " ", "\"", "t", "w", "o", "\"", ";", " ", "p", "r", "i", "n", "t", " ",
      "z", ";", " ", "p", "r", "i", "n", "t", " ", "3", ";">>

(* let x = 1; let y = 0; x = x + 1; print x; print y; *)
ExampleFrame ==
    <<"l", "e", "t", " ", "x", " ", "=", " ", "1", ";", " ", "l", "e", "t",
      " ", "y", " ", "=", " ", "0", ";", " ", "x", " ", "=", " ", "x", " ",
      "+", " ", "1", ";", " ", "p", "r", "i", "n", "t", " ", "x", ";", " ",
      "p", "r", "i", "n", "t", " ", "y", ";">>

(* print 1 < 2; *)
ExampleComparison ==
    <<"p", "r", "i", "n", "t", " ", "1", " ", "<", " ", "2", ";">>

StatementPool ==
    <<LetX1, LetX2, LetY0, LetYZ, AssignX,
      AssignZ, PrintX, PrintZ, PrintDiv, PrintMod,
      PrintStrings, PrintOverflow, IfElseX, IfX, IfNested,
      IfOpen, ElseOpen>>

Examples ==
    {ExamplePrint, ExamplePrecedence, ExampleIf, ExampleDivide,
     ExampleRedeclare, ExampleEquality, ExampleMaxLiteral, ExampleBigLiteral,
     ExampleLongLiteral, ExampleUnterminated, ExampleKeywords, ExampleParenthesis,
     ExampleFault, ExampleFrame, ExampleComparison}

(* the longest program drawn from StatementPool, in statements *)
MaxStatements == 2

(* the longest text drawn from CodeAlphabet, in characters *)
MaxCodeLen == 4

(* the longest text drawn from Lexemes, in lexemes *)
MaxLexemes == 3

(* the most operators in a text drawn from ExpressionOperands and
   ExpressionLexemes *)
MaxOperators == 2

CodeAlphabet == {"=", "!", "1", "a", "\"", " ", "@"}

Lexemes ==
    {<<"i", "f">>, <<"e", "l", "s", "e">>, <<"p", "r", "i", "n", "t">>,
     <<"x">>, <<"1">>, <<"{">>, <<"}">>, <<";">>}

ExpressionOperands == {<<"0">>, <<"3">>}

ExpressionLexemes ==
    {<<"+">>, <<"-">>, <<"*">>, <<"/">>, <<"%">>, <<"<">>, <<">">>, <<"=">>,
     <<"!", "=">>}

(* the texts of at most n parts from `parts`, each part followed by `sep` *)
RECURSIVE Texts(_, _, _)
Texts(parts, sep, n) ==
    IF n = 0 THEN {<<>>}
    ELSE LET shorter == Texts(parts, sep, n - 1) IN
         shorter \cup {t \o p \o sep : t \in shorter, p \in parts}

(* print o1 op o2 op ... ; with at most n operators *)
RECURSIVE Expressions(_)
Expressions(n) ==
    IF n = 0 THEN ExpressionOperands
    ELSE LET shorter == Expressions(n - 1) IN
         shorter \cup {e \o <<" ">> \o op \o <<" ">> \o o :
                          e \in shorter, op \in ExpressionLexemes,
                          o \in ExpressionOperands}

(* the longest word drawn from WordAlphabet, in characters *)
MaxWordLen == 3

WordAlphabet == {"f", "n", "_", "1"}

(* the six words of the keyword match and words near them *)
FixedWords ==
    {<<"l", "e", "t">>, <<"p", "r", "i", "n", "t">>, <<"f", "n">>, <<"i", "f">>,
     <<"e", "l", "s", "e">>, <<"e", "l", "i", "f">>,
     <<"l", "e", "t", "s">>, <<"L", "e", "t">>, <<"l", "e">>, <<"i", "f", "f">>,
     <<"e", "l", "s", "e", "_">>, <<"e", "l", "i", "f", "1">>,
     <<"p", "r", "i", "n", "t", "_", "2">>, <<"I", "F">>, <<"x">>}

(* the words of at most n characters over WordAlphabet: a letter, then
   letters, digits and underscores *)
RECURSIVE AlphabetWords(_)
AlphabetWords(n) ==
    IF n = 1 THEN {<<c>> : c \in WordAlphabet \cap Alphabetic}
    ELSE LET shorter == AlphabetWords(n - 1) IN
         shorter \cup {w \o <<c>> : w \in shorter, c \in WordAlphabet}

Words == FixedWords \cup AlphabetWords(MaxWordLen)

(* one word, or a word of FixedWords, a space and a word *)
WordSources == Words \cup {a \o <<" ">> \o b : a \in FixedWords, b \in Words}

Sources ==
    Examples
    \cup WordSources
    \cup Texts({StatementPool[k] : k \in DOMAIN StatementPool}, <<"\n">>, MaxStatements)
    \cup Texts({<<c>> : c \in CodeAlphabet}, <<>>, MaxCodeLen)
    \cup Texts(Lexemes, <<" ">>, MaxLexemes)
    \cup {<<"p", "r", "i", "n", "t", " ">> \o e \o <<";">> : e \in Expressions(MaxOperators)}

(***************************************************************************)
(* The run of main.rs: tokenize, parse, unwrap, interpret.                 *)
(*   pc         the stage main has reached; "panic" is the aborted process *)
(*   blocks     the statement loops parse is inside, outermost first       *)
(*   statements the statements of the Program node parse returned          *)
(*   ip         the number of the next statement of the Program loop       *)
(***************************************************************************)
Frame(block, condition, stmts, then_statements) ==
    [block |-> block, condition |-> condition, statements |-> stmts,
     then_statements |-> then_statements]

Init ==
    /\ code \in Sources
    /\ overflow_checks \in BOOLEAN
    /\ pc = "tokenize"
    /\ tokens = <<>>
    /\ current = 0
    /\ blocks = <<>>
    /\ statements = <<>>
    /\ ip = 1
    /\ variables = <<>>
    /\ stdout = <<>>
    /\ fault = NoFault

(* main.rs: let tokens = tokenize(&script); and Parser::new(tokens) *)
Tokenize ==
    /\ pc = "tokenize"
    /\ LET r == tokenize(code) IN
       IF r.ok
       THEN /\ tokens' = r.tokens
            /\ blocks' = <<Frame("program", Number(0), <<>>, <<>>)>>
            /\ pc' = "parse"
            /\ fault' = fault
       ELSE /\ pc' = "panic"
            /\ fault' = [kind |-> "ParseIntError", what |-> "unwrap", at |-> 0]
            /\ UNCHANGED <<tokens, blocks>>
    /\ UNCHANGED <<code, overflow_checks, current, statements, ip, variables, stdout>>

Top == blocks[Len(blocks)]

(* the while condition of the statement loop parse is in *)
LoopRuns ==
    IF Top.block = "program"
    THEN current_token(tokens, current).type # "EndOfFile"
    ELSE current_token(tokens, current).type # "RightBrace"

(* statements.push(statement) in the innermost loop *)
Push(stack, statement) ==
    [stack EXCEPT ![Len(stack)].statements = Append(@, statement)]

(* the ? operator in parse and the unwrap() in main *)
ParseFails(error) ==
    /\ pc' = "panic"
    /\ fault' = error
    /\ UNCHANGED <<current, blocks, statements>>

(* one iteration of a statement loop whose statement is no if statement *)
ParseStatement ==
    /\ pc = "parse"
    /\ LoopRuns
    /\ current_token(tokens, current).type # "If"
    /\ LET r == parse_statement(tokens, current) IN
       IF r.ok
       THEN /\ blocks' = Push(blocks, r.node)
            /\ current' = r.current
            /\ UNCHANGED <<pc, fault, statements>>
       ELSE ParseFails(r.error)
    /\ UNCHANGED <<code, overflow_checks, tokens, ip, variables, stdout>>

(* parse_if_statement up to its first while loop *)
ParseIfHead ==
    /\ pc = "parse"
    /\ LoopRuns
    /\ current_token(tokens, current).type = "If"
    /\ LET r == parse_if_head(tokens, current) IN
       IF r.ok
       THEN /\ blocks' = Append(blocks, Frame("then", r.node, <<>>, <<>>))
            /\ current' = r.current
            /\ UNCHANGED <<pc, fault, statements>>
       ELSE ParseFails(r.error)
    /\ UNCHANGED <<code, overflow_checks, tokens, ip, variables, stdout>>

(* parse_if_statement from the end of a while loop: the closing brace, then
   either the else block's opening or the return of the node to the loop
   that called parse_statement *)
ParseBlockEnd ==
    /\ pc = "parse"
    /\ Top.block # "program"
    /\ ~LoopRuns
    /\ LET c == expect_token(tokens, current, "RightBrace")
           else_follows == Top.block = "then" /\ c.ok
                           /\ current_token(tokens, c.current).type = "Else"
           b == parse_else_head(tokens, c.current)
           node == IF Top.block = "then"
                   THEN IfNode(Top.condition, Top.statements)
                   ELSE IfElseNode(Top.condition, Top.then_statements, Top.statements)
       IN
       IF ~c.ok THEN ParseFails(c.error)
       ELSE IF else_follows
       THEN IF b.ok
            THEN /\ blocks' = [blocks EXCEPT ![Len(blocks)] =
                                  Frame("else", Top.condition, <<>>, Top.statements)]
                 /\ current' = b.current
                 /\ UNCHANGED <<pc, fault, statements>>
            ELSE ParseFails(b.error)
       ELSE /\ blocks' = Push(SubSeq(blocks, 1, Len(blocks) - 1), node)
            /\ current' = c.current
            /\ UNCHANGED <<pc, fault, statements>>
    /\ UNCHANGED <<code, overflow_checks, tokens, ip, variables, stdout>>

(* Parser::parse returns Ok(Program(statements)); main unwraps it and calls
   exec::interpret, which makes a new Interpreter *)
ParseEnd ==
    /\ pc = "parse"
    /\ Top.block = "program"
    /\ ~LoopRuns
    /\ statements' = Top.statements
    /\ blocks' = <<>>
    /\ pc' = "interpret"
    /\ UNCHANGED <<code, overflow_checks, tokens, current, ip, variables, stdout, fault>>

(* the for loop of the Program arm has a statement left *)
Running == pc = "interpret" /\ ip <= Len(statements)

(* one iteration of the for loop of the Program arm: self.interpret on the
   statement; a panic ends the process *)
Execute ==
    /\ LET r == interpret(statements[ip], variables, stdout, overflow_checks) IN
       /\ variables' = r.variables
       /\ stdout' = r.stdout
       /\ fault' = r.fault
       /\ IF r.fault.kind = "None"
          THEN ip' = ip + 1 /\ pc' = pc
          ELSE ip' = ip /\ pc' = "panic"
    /\ UNCHANGED <<code, overflow_checks, tokens, current, blocks, statements>>

InterpretVariable ==
    /\ Running
    /\ statements[ip].kind = "Variable"
    /\ Execute

InterpretAssignment ==
    /\ Running
    /\ statements[ip].kind = "Assignment"
    /\ Execute

InterpretPrint ==
    /\ Running
    /\ statements[ip].kind = "Print"
    /\ Execute

(* the `_ => panic!` arm: an If or IfElse node *)
InterpretUnexpected ==
    /\ Running
    /\ statements[ip].kind \notin {"Variable", "Assignment", "Print"}
    /\ Execute

(* the for loop ends and main returns *)
InterpretEnd ==
    /\ pc = "interpret"
    /\ ip > Len(statements)
    /\ pc' = "done"
    /\ UNCHANGED <<code, overflow_checks, tokens, current, blocks, statements,
                   ip, variables, stdout, fault>>

Next ==
    \/ Tokenize
    \/ ParseStatement
    \/ ParseIfHead
    \/ ParseBlockEnd
    \/ ParseEnd
    \/ InterpretVariable
    \/ InterpretAssignment
    \/ InterpretPrint
    \/ InterpretUnexpected
    \/ InterpretEnd

Spec == Init /\ [][Next]_vars

(***************************************************************************)
(* Properties                                                              *)
(***************************************************************************)
(* the evaluation the statement at ip starts with *)
Outcome ==
    evaluate_expression(IF statements[ip].kind = "Print" THEN statements[ip].expression
                        ELSE statements[ip].value,
                        variables, overflow_checks)

PrintSucceeds == Running /\ statements[ip].kind = "Print" /\ Outcome.ok

(* C1: the output grows only by the value of the Print statement that is
   executed, at its end; statements are executed one by one in program
   order; a statement that faults leaves the output as it was and ends the
   run, and nothing is executed or printed after it. *)
C1_OutputIsExecutedPrints ==
    /\ [][IF PrintSucceeds
          THEN stdout' = Append(stdout, stringify_value(Outcome.value)) /\ ip' = ip + 1
          ELSE stdout' = stdout]_vars
    /\ [][ip' = ip \/ (Running /\ ip' = ip + 1 /\ fault'.kind = "None")]_vars
    /\ [][(Running /\ fault'.kind # "None") => (pc' = "panic" /\ ip' = ip)]_vars
    /\ [][pc # "panic"]_vars
    /\ [](fault.kind # "None" => pc = "panic")

(* two lines are out, the third statement has faulted, the fourth is left *)
C1_Witness ==
    /\ pc = "panic"
    /\ fault.kind = "UndefinedVariable"
    /\ stdout = <<"1", "two">>
    /\ ip = 3
    /\ Len(statements) = 4

(* C2: an If or IfElse statement whose condition is a number is executed,
   not refused, and `let x = 1; if x { print "yes"; } else { print "no"; }`
   prints exactly yes. *)
C2_IfRunsItsBranch ==
    /\ (pc = "panic" /\ fault.kind = "UnexpectedNode")
          => ~(/\ statements[ip].kind \in {"If", "IfElse"}
               /\ evaluate_expression(statements[ip].condition, variables,
                                      overflow_checks).ok
               /\ evaluate_expression(statements[ip].condition, variables,
                                      overflow_checks).value.kind = "Number")
    /\ (code = ExampleIf /\ pc \in {"done", "panic"}) => stdout = <<"yes">>

(* the characters of a text *)
Range(f) == {f[i] : i \in DOMAIN f}

(* the tokens of the first n characters of the text, without the end-of-input
   token *)
Scanned(src, n) == LET t == tokenize(SubSeq(src, 1, n)).tokens IN SubSeq(t, 1, Len(t) - 1)

(* the places where a `==` starts outside a string literal and an `=` or a
   `!` does not come right before *)
EqualitySigns(src) ==
    {i \in 1..(Len(src) - 1) :
        /\ src[i] = "=" /\ src[i + 1] = "="
        /\ (i = 1 \/ src[i - 1] \notin {"=", "!"})
        /\ "\"" \notin Range(SubSeq(src, 1, i))}

(* C3: the two characters of a `==` become one token, which is not the
   token of a lone `=`; `print 1 == 1;` reaches the parser as print, 1, one
   operator, 1, `;` and the end of input. *)
C3_EqualityIsOneToken ==
    /\ pc = "parse" =>
          \A i \in EqualitySigns(code) :
              /\ Len(Scanned(code, i + 1)) = Len(Scanned(code, i - 1)) + 1
              /\ Scanned(code, i + 1)[Len(Scanned(code, i + 1))] # Tok("Equal")
    /\ (pc = "parse" /\ code = ExampleEquality) => Len(tokens) = 6

(* C4: tokenize returns for every text, and what it returns ends with the
   end-of-input token and holds no other. *)
C4_TokenizeIsTotal ==
    pc # "tokenize" =>
        /\ fault.kind # "ParseIntError"
        /\ Len(tokens) >= 1
        /\ tokens[Len(tokens)].type = "EndOfFile"
        /\ \A i \in 1..(Len(tokens) - 1) : tokens[i].type # "EndOfFile"

(* how often a token of the type occurs *)
CountType(toks, type) == Cardinality({i \in DOMAIN toks : toks[i].type = type})

(* C5: every iteration of a statement loop of parse consumes a token or ends
   the parse, and the cursor stays before the end of the tokens, so parse
   ends after at most Len(tokens) iterations; a Program is returned only by
   the outermost loop with the whole input consumed; an error hands no
   statement to the interpreter; a token sequence with a block left open
   ends in an error. *)
C5_ParseTerminates ==
    /\ [][pc = "parse" => (pc' \in {"interpret", "panic"} \/ current' > current)]_vars
    /\ [](pc = "parse" => current < Len(tokens))
    /\ [](pc \in {"interpret", "done"} => (blocks = <<>> /\ current = Len(tokens) - 1))
    /\ []((pc = "panic" /\ fault.kind = "ParseError")
             => (statements = <<>> /\ stdout = <<>>))
    /\ []((pc \notin {"tokenize", "parse"} /\ fault.kind # "ParseIntError"
           /\ CountType(tokens, "LeftBrace") > CountType(tokens, "RightBrace"))
             => (pc = "panic" /\ fault.kind = "ParseError"))

(* the end of input was met inside a block whose brace is open *)
C5_Witness ==
    /\ pc = "panic"
    /\ fault.kind = "ParseError"
    /\ fault.what = "Unexpected token EndOfFile"
    /\ fault.at = Len(tokens) - 1
    /\ Len(blocks) = 2
    /\ Top.block = "else"

FlatOperators ==
    {"Plus", "Minus", "Asterisk", "Slash", "Modulo", "LessThan", "GreaterThan"}

FactorTypes == {"Number", "StringLiteral", "Identifier"}

(* print f1 op1 f2 ... fn ; without a parenthesis, the operators among
   + - * / % < > *)
IsFlatPrint(toks) ==
    /\ Len(toks) >= 4
    /\ Len(toks) % 2 = 0
    /\ toks[1].type = "Print"
    /\ toks[Len(toks) - 1].type = "SemiColon"
    /\ toks[Len(toks)].type = "EndOfFile"
    /\ \A i \in 2..(Len(toks) - 2) :
          IF i % 2 = 0 THEN toks[i].type \in FactorTypes
          ELSE toks[i].type \in FlatOperators

FactorNode(t) ==
    CASE t.type = "Number" -> Number(t.value)
      [] t.type = "StringLiteral" -> StringLiteral(t.text)
      [] OTHER -> Identifier(t.text)

(* ((f1 op1 f2) op2 f3) ... up to the k-th operator of a flat print *)
RECURSIVE LeftNested(_, _)
LeftNested(toks, k) ==
    IF k = 0 THEN FactorNode(toks[2])
    ELSE BinaryOperation(LeftNested(toks, k - 1), toks[2 * k + 1],
                         FactorNode(toks[2 * k + 2]))

(* the operators applied one after the other from the left, each to the
   result so far and the next factor *)
RECURSIVE LeftToRight(_, _, _, _)
LeftToRight(toks, k, env, oc) ==
    IF k = 0 THEN evaluate_expression(FactorNode(toks[2]), env, oc)
    ELSE LET sofar == LeftToRight(toks, k - 1, env, oc)
             factor == evaluate_expression(FactorNode(toks[2 * k + 2]), env, oc) IN
         IF ~sofar.ok THEN sofar
         ELSE IF ~factor.ok THEN factor
         ELSE evaluate_binary_operation(sofar.value, toks[2 * k + 1], factor.value, oc)

(* C6: a flat print statement is parsed into the left-nested tree and its
   outcome is that of applying the operators from left to right;
   `let a = 2; let b = 3; print a + b * 2;` prints 10. *)
C6_EqualPrecedenceLeftToRight ==
    /\ (pc \notin {"tokenize", "parse"} /\ IsFlatPrint(tokens)) =>
          /\ fault.kind # "ParseError"
          /\ statements = <<PrintNode(LeftNested(tokens, (Len(tokens) - 4) \div 2))>>
    /\ (pc \in {"done", "panic"} /\ IsFlatPrint(tokens)) =>
          LET v == LeftToRight(tokens, (Len(tokens) - 4) \div 2, <<>>, overflow_checks) IN
          IF v.ok THEN pc = "done" /\ stdout = <<stringify_value(v.value)>>
          ELSE pc = "panic" /\ fault = v.fault /\ stdout = <<>>
    /\ (code = ExamplePrecedence /\ pc \in {"done", "panic"}) =>
          (pc = "done" /\ stdout = <<"10">>)

(* 3 - 3 - 3 has printed -3, not the 3 of 3 - (3 - 3) *)
C6_Witness ==
    /\ pc = "done"
    /\ IsFlatPrint(tokens)
    /\ Len(tokens) = 8
    /\ tokens[3].type = "Minus"
    /\ tokens[5].type = "Minus"
    /\ stdout = <<"-3">>

Comparisons == {"Equal", "NotEqual", "LessThan", "GreaterThan"}

Holds(a, type, b) ==
    CASE type = "Equal" -> a = b
      [] type = "NotEqual" -> a # b
      [] type = "LessThan" -> a < b
      [] OTHER -> a > b

(* C7: a comparison of two numbers yields 1 when it holds and 0 when it
   does not, and never a fault (seen at the end of `print a op b;`). *)
C7_ComparisonsYieldOneOrZero ==
    (/\ pc \in {"done", "panic"}
     /\ Len(statements) = 1
     /\ statements[1].kind = "Print"
     /\ statements[1].expression.kind = "BinaryOperation"
     /\ statements[1].expression.left.kind = "Number"
     /\ statements[1].expression.right.kind = "Number"
     /\ statements[1].expression.operator.type \in Comparisons)
    => LET e == statements[1].expression IN
       /\ pc = "done"
       /\ stdout = <<IF Holds(e.left.value, e.operator.type, e.right.value)
                     THEN "1" ELSE "0">>

(* the statement at ip is a declaration, an assignment or a print *)
Simple == Running /\ statements[ip].kind \in {"Variable", "Assignment", "Print"}

(* the statement at ip divides a number by zero as its last operation *)
DividesByZero ==
    /\ Simple
    /\ LET e == IF statements[ip].kind = "Print" THEN statements[ip].expression
                ELSE statements[ip].value IN
       /\ e.kind = "BinaryOperation"
       /\ e.operator.type \in {"Slash", "Modulo"}
       /\ evaluate_expression(e.left, variables, overflow_checks).ok
       /\ evaluate_expression(e.left, variables, overflow_checks).value.kind = "Number"
       /\ evaluate_expression(e.right, variables, overflow_checks) = Value(Number(0))

(* C8: n / 0 and n % 0 fault and end the run; the statement writes no line
   and no binding; `let x = 10; let y = 0; print x / y;` prints nothing. *)
C8_DivisionByZeroFaults ==
    /\ [][DividesByZero =>
             /\ pc' = "panic"
             /\ fault'.kind = "DivideByZero"
             /\ stdout' = stdout
             /\ variables' = variables]_vars
    /\ []((code = ExampleDivide /\ pc \in {"done", "panic"}) =>
             (pc = "panic" /\ fault.kind = "DivideByZero" /\ stdout = <<>>))

(* a print has divided by zero after two bindings were made *)
C8_Witness ==
    /\ pc = "panic"
    /\ fault.kind = "DivideByZero"
    /\ statements[ip].kind = "Print"
    /\ statements[ip].expression.operator.type = "Slash"
    /\ DOMAIN variables = {"x", "y"}
    /\ stdout = <<>>

Writes == Running /\ statements[ip].kind \in {"Variable", "Assignment"}

(* C9: a declaration or assignment whose expression has a value binds the
   name to it, bound before or not, and leaves every other binding and the
   output alone; nothing else writes a binding;
   `let x = 1; let x = 2; print x;` prints 2. *)
C9_BindingIsWritten ==
    /\ [][(Writes /\ Outcome.ok) =>
             /\ DOMAIN variables' = DOMAIN variables \cup {statements[ip].name}
             /\ variables'[statements[ip].name] = Outcome.value
             /\ \A n \in DOMAIN variables \ {statements[ip].name} :
                   variables'[n] = variables[n]
             /\ stdout' = stdout
             /\ fault'.kind = "None"]_vars
    /\ [][~Writes => variables' = variables]_vars
    /\ []((code = ExampleRedeclare /\ pc \in {"done", "panic"}) =>
             (pc = "done" /\ stdout = <<"2">>))

(* x was overwritten while y was bound, and both were printed *)
C9_Witness ==
    /\ pc = "done"
    /\ code = ExampleFrame
    /\ variables = [x |-> Number(2), y |-> Number(0)]
    /\ stdout = <<"2", "0">>

(* the first operand the evaluation of an expression reaches *)
RECURSIVE Leftmost(_)
Leftmost(e) == IF e.kind = "BinaryOperation" THEN Leftmost(e.left) ELSE e

(* the names an expression refers to *)
RECURSIVE Names(_)
Names(e) ==
    CASE e.kind = "BinaryOperation" -> Names(e.left) \cup Names(e.right)
      [] e.kind = "Identifier" -> {e.name}
      [] OTHER -> {}

StatementExpression ==
    IF statements[ip].kind = "Print" THEN statements[ip].expression
    ELSE statements[ip].value

(* C10: a statement whose evaluation starts at an identifier without a
   binding faults naming it; a fault for an undefined variable names an
   identifier of the faulting statement that has no binding, and that
   statement has written no line and no binding. *)
C10_UndefinedVariableFaults ==
    /\ [][(/\ Simple
           /\ Leftmost(StatementExpression).kind = "Identifier"
           /\ Leftmost(StatementExpression).name \notin DOMAIN variables) =>
             /\ pc' = "panic"
             /\ fault'.kind = "UndefinedVariable"
             /\ fault'.what = Leftmost(StatementExpression).name
             /\ stdout' = stdout
             /\ variables' = variables]_vars
    /\ [][(fault'.kind = "UndefinedVariable" /\ fault.kind = "None") =>
             (Simple /\ stdout' = stdout /\ variables' = variables)]_vars
    /\ [](fault.kind = "UndefinedVariable" =>
             /\ pc = "panic"
             /\ fault.what \notin DOMAIN variables
             /\ fault.what \in Names(StatementExpression))

(* `print z;` has faulted naming z *)
C10_Witness ==
    /\ pc = "panic"
    /\ fault.kind = "UndefinedVariable"
    /\ fault.what = "z"
    /\ statements[ip] = PrintNode(Identifier("z"))
    /\ stdout = <<>>
    /\ variables = <<>>

(***************************************************************************)
(* C11: keywords and identifiers                                           *)
(***************************************************************************)
(* the words of src: the maximal runs of characters other than the space,
   in order, `word` being the run that ends before position i *)
RECURSIVE Split(_, _, _)
Split(src, i, word) ==
    LET done == IF word = <<>> THEN <<>> ELSE <<word>> IN
    IF i > Len(src) THEN done
    ELSE IF src[i] = " " THEN done \o Split(src, i + 1, <<>>)
    ELSE Split(src, i + 1, Append(word, src[i]))

(* a letter followed by letters, digits and underscores *)
IsWord(w) ==
    /\ w # <<>>
    /\ w[1] \in Alphabetic
    /\ \A i \in DOMAIN w : w[i] \in Alphanumeric \cup {"_"}

(* the script is one or more words separated by spaces, and has been
   tokenized *)
WordsScanned ==
    /\ pc # "tokenize"
    /\ Split(code, 1, <<>>) # <<>>
    /\ \A w \in Range(Split(code, 1, <<>>)) : IsWord(w)

(* the token types that are keyword markers (ast.rs: Let, Print, Fn, If,
   Else, IfElse) *)
KeywordTypes == {"Let", "Print", "Fn", "If", "Else", "IfElse"}

(* every word of the script became one token, a keyword token only for a
   word of `reserved`, and every other word the identifier token carrying
   its text *)
WordsBecome(reserved) ==
    LET ws == Split(code, 1, <<>>) IN
    /\ Len(tokens) = Len(ws) + 1
    /\ tokens[Len(tokens)] = Tok("EndOfFile")
    /\ \A k \in DOMAIN ws :
          LET word == Text(ws[k], 1, Len(ws[k]) + 1) IN
          /\ tokens[k].type \in KeywordTypes => word \in reserved
          /\ word \notin reserved => tokens[k] = TokIdentifier(word)

(* C11, as claimed: for every word made of a letter followed by letters,
   digits and underscores, tokenize emits a keyword token only when the word
   is one of let, print, if, else; every other word becomes an identifier
   token carrying that text.  Violated by the words fn and elif. *)
C11_KeywordsAreFour ==
    WordsScanned => WordsBecome({"let", "print", "if", "else"})

(* C11, as amended: for every word made of a letter followed by letters,
   digits and underscores, tokenize emits a keyword token only when the word
   is one of let, print, fn, if, else, elif; every other word becomes an
   identifier token carrying that text. *)
C11_KeywordsAreSix ==
    WordsScanned => WordsBecome({"let", "print", "fn", "if", "else", "elif"})

(* the script `elif elif1` has been tokenized: a keyword and, for the
   longer word, an identifier *)
C11_Witness ==
    /\ WordsScanned
    /\ code = <<"e", "l", "i", "f", " ", "e", "l", "i", "f", "1">>
    /\ tokens = <<Tok("IfElse"), TokIdentifier("elif1"), Tok("EndOfFile")>>

(***************************************************************************)
(* C12: the two loops that accept == and !=                                *)
(*                                                                         *)
(* parse_expression enters its loop with the cursor parse_term left, and   *)
(* re-evaluates the while condition with the cursor the parse_term of the  *)
(* loop body left (ast.rs:144, 158): the expression-level loop consumes an *)
(* operator exactly when a successful parse_term leaves the cursor on it.  *)
(***************************************************************************)
Cursors(toks) == 0 .. Len(toks) - 1

(* the cursors from which parse_term succeeds and leaves the cursor on == or
   !=, for the expression-level loop to consume *)
LeftForExpression(toks) ==
    {cur \in Cursors(toks) :
        /\ parse_term(toks, cur).ok
        /\ current_token(toks, parse_term(toks, cur).current).type \in TermOperators}

(* the cursors from which parse_term succeeds after its loop consumed one ==
   or != at least *)
TakenByTerm(toks) ==
    {cur \in Cursors(toks) :
        /\ parse_factor(toks, cur).ok
        /\ current_token(toks, parse_factor(toks, cur).current).type \in TermOperators
        /\ parse_term(toks, cur).ok}

(* C12, as claimed: the parser recognizes == and != at both precedence
   levels: the term-level loop consumes them, and there are token sequences
   in which an == or != operator is consumed by the expression-level loop of
   parse_expression and becomes the operator of the node that loop builds.
   The sequences are those of the scripts of Sources and of this run,
   accepted or not, so that the statement is no stronger than the claim. *)
C12_BothLoopsConsume ==
    /\ \E src \in Sources \cup {code} :
          tokenize(src).ok /\ TakenByTerm(tokenize(src).tokens) # {}
    /\ \E src \in Sources \cup {code} :
          tokenize(src).ok /\ LeftForExpression(tokenize(src).tokens) # {}

(* C12, as amended: the while conditions of both loops accept == and !=,
   but only the term-level loop consumes them: wherever a factor is followed
   by == or !=, a successful parse_term has consumed the operator into the
   BinaryOperation it returns, and it never leaves the cursor on == or !=,
   so the expression-level loop of parse_expression consumes none. *)
C12_OnlyTermLoopConsumes ==
    pc = "parse" =>
        /\ TermOperators \subseteq ExpressionOperators
        /\ LeftForExpression(tokens) = {}
        /\ \A cur \in TakenByTerm(tokens) :
              /\ parse_term(tokens, cur).node.kind = "BinaryOperation"
              /\ parse_term(tokens, cur).node.operator.type \in TermOperators
              /\ parse_term(tokens, cur).current > parse_factor(tokens, cur).current + 1

(* print 0 != 3 != 0; is being parsed: parse_term consumes both operators
   and leaves the cursor on the semicolon *)
C12_Witness ==
    /\ pc = "parse"
    /\ code = <<"p", "r", "i", "n", "t", " ", "0", " ", "!", "=", " ", "3",
                " ", "!", "=", " ", "0", ";">>
    /\ 1 \in TakenByTerm(tokens)
    /\ parse_term(tokens, 1).current = 6
    /\ parse_term(tokens, 1).node =
          BinaryOperation(BinaryOperation(Number(0), Tok("NotEqual"), Number(3)),
                          Tok("NotEqual"), Number(0))

====
